---- MODULE Spec2Model ----
(***************************************************************************)
(* Model of backend/main.py: the upload pipeline (validate, read, extract, *)
(* chunk, one model call per chunk, aggregate), the process-wide set of    *)
(* websocket connections and the status broadcast that iterates over it.   *)
(*                                                                         *)
(* Strings are sequences: a text is a sequence of character codes, a       *)
(* summary or a file name is a sequence of one-character strings.  A JSON  *)
(* object is a function from its keys; a missing key is a key that is not  *)
(* in the DOMAIN.                                                          *)
(*                                                                         *)
(* The state of the upload handler keeps the extracted text and its chunks *)
(* by their lengths: the text is the one extracted from the pages of the   *)
(* upload (PagesText), the chunks are those ChunkText cuts it into, and    *)
(* nothing in the handler reads their characters.                          *)
(***************************************************************************)
EXTENDS Integers, Sequences, FiniteSets, TLC

VARIABLES
    pc,                   \* where the upload handler stands (an await, or a broadcast site)
    filename,             \* uploaded_file.filename
    upload,               \* the uploaded document: its pages and where reading it fails
    file_bytes,           \* TRUE once uploaded_file.read() has run
    page_index,           \* pages extracted so far in extract_text_from_pdf
    extracted_text,       \* extracted_text, then pdf_content (kept as its length)
    content_chunks,       \* content_chunks (each chunk kept as its length)
    chunk_index,          \* chunk_index of the enumerate loop (0-based)
    all_analysis_results, \* all_analysis_results
    result_json,          \* the answer of the model endpoint, from line 174 to line 178
    aggregated_results,   \* << >>, or <<aggregated_results>> once built
    pending_error,        \* the exception being handled, and where it was raised
    response,             \* the HTTP response of /upload
    conn,                 \* per websocket: "new", "open", "gone" (peer left) or "closed"
    active_connections,   \* the module-level set active_connections
    bc,                   \* the running call of broadcast_status_update
    extractor_calls,      \* calls of extract_text_from_pdf so far
    model_calls,          \* model_calls[i]: POSTs issued for chunk i (1-based)
    pdf_content,          \* the chunker on its own: the text it is given
    chunked               \* the chunker on its own: << >>, or <<its chunks>>

vars == <<pc, filename, upload, file_bytes, page_index, extracted_text,
          content_chunks, chunk_index, all_analysis_results, result_json,
          aggregated_results, pending_error, response, conn,
          active_connections, bc, extractor_calls, model_calls,
          pdf_content, chunked>>

-----------------------------------------------------------------------------
(* Bounds of the model *)

MaxConns == 2       \* websockets that ever connect
MaxPages == 2       \* pages of an uploaded document
MaxTextLen == 3200  \* longest text given to the chunker on its own
MaxResults == 3     \* longest result list given to the aggregation on its own

(* Program constants *)

ChunkSize == 1500   \* the slice width of content_chunks

Min(a, b) == IF a < b THEN a ELSE b

-----------------------------------------------------------------------------
(* Strings *)

NewLine == 10

\* The character at 0-based position p of a generated page or text.
CharAt(p) == 32 + (p % 7)

TextOfLen(n) == [p \in 1..n |-> CharAt(p - 1)]

\* Python's s[lo:hi] for 0 <= lo <= hi: the end is clamped to len(s).
Slice(s, lo, hi) == SubSeq(s, lo + 1, Min(hi, Len(s)))

-----------------------------------------------------------------------------
(* Chunking: [pdf_content[i:i+1500] for i in range(0, len(pdf_content), 1500)] *)

RECURSIVE ChunksFromMissingTail(_, _)
ChunksFromMissingTail(s, i) ==
    IF i + ChunkSize > Len(s) THEN << >>
    ELSE <<Slice(s, i, i + ChunkSize)>> \o ChunksFromMissingTail(s, i + ChunkSize)

RECURSIVE ChunksFrom(_, _)
ChunksFrom(s, i) ==
    IF i >= Len(s) THEN << >>
    ELSE <<Slice(s, i, i + ChunkSize)>> \o ChunksFrom(s, i + ChunkSize)

ChunkText(s) == ChunksFrom(s, 0)

-----------------------------------------------------------------------------
(* Aggregation of the per-chunk results (the dict built after the chunk loop) *)

ListFields == {"abnormal_results", "charts", "recommendations"}

Space == " "

\* result.get(key, []): a missing key gives the empty list.
Get(result, key) == IF key \in DOMAIN result THEN result[key] ELSE << >>

\* [item for result in results for item in result.get(key, [])]
RECURSIVE Flatten(_, _)
Flatten(results, key) ==
    IF results = << >> THEN << >>
    ELSE Get(Head(results), key) \o Flatten(Tail(results), key)

JoinNoSeparator(strs) ==
    LET RECURSIVE Cat(_)
        Cat(ss) == IF ss = << >> THEN << >> ELSE Head(ss) \o Cat(Tail(ss))
    IN  Cat(strs)

\* " ".join(strs)
RECURSIVE JoinSpace(_)
JoinSpace(strs) ==
    IF strs = << >> THEN << >>
    ELSE IF Len(strs) = 1 THEN Head(strs)
    ELSE Head(strs) \o <<Space>> \o JoinSpace(Tail(strs))

\* result["summary"] raises KeyError on a result without that key.
AggregateRaises(results) ==
    \E k \in DOMAIN results : "summary" \notin DOMAIN results[k]

Aggregate(results) ==
    [summary          |-> JoinSpace([k \in DOMAIN results |-> results[k]["summary"]]),
     abnormal_results |-> Flatten(results, "abnormal_results"),
     charts           |-> Flatten(results, "charts"),
     recommendations  |-> Flatten(results, "recommendations")]

-----------------------------------------------------------------------------
(* Inputs *)

Conns == 1..MaxConns

PdfSuffix == <<".", "p", "d", "f">>

\* str.endswith
EndsWith(s, suffix) ==
    /\ Len(s) >= Len(suffix)
    /\ SubSeq(s, Len(s) - Len(suffix) + 1, Len(s)) = suffix

Filenames ==
    { <<"r", ".", "p", "d", "f">>,
      <<"r", ".", "t", "x", "t">>, <<"p", "d", "f">>, <<".", "p", "d", "f", "x">> }

\* Lengths of the text PyPDF2 extracts from a page: two thirds of a chunk, so
\* that chunks straddle pages and the last chunk is a short one.
PageLens == {(2 * ChunkSize) \div 3}

PageLists == UNION { [1..n -> PageLens] : n \in 0..MaxPages }

\* fails_at: -1 nothing fails, 0 PdfReader() raises, k > 0 page k's
\* extract_text() raises.
Uploads ==
    { u \in [pages : PageLists, fails_at : -1..MaxPages] :
        /\ u.fails_at <= Len(u.pages)
        /\ u.fails_at = 0 => u.pages = << >> }

Letters == <<"A", "B", "C", "D", "E", "F", "G", "H">>

\* What the model endpoint may answer for chunk i (1-based): the request
\* fails, the body does not hold a JSON document at choices[0].message.content,
\* or it holds one of these documents.
Documents(i) ==
    { [summary |-> <<Letters[i]>>, abnormal_results |-> <<10 * i + 1>>,
       charts |-> << >>, recommendations |-> <<10 * i + 2, 10 * i + 3>>],
      [recommendations |-> <<10 * i + 5>>] }

HttpError == [kind |-> "http_error", doc |-> << >>]
BadBody == [kind |-> "bad_body", doc |-> << >>]
NoAnswer == [kind |-> "none", doc |-> << >>]

Answers(i) ==
    {HttpError, BadBody} \cup { [kind |-> "json", doc |-> <<d>>] : d \in Documents(i) }

NoError == [kind |-> "none", at |-> "none"]
NoResponse == [status |-> 0, body |-> << >>]

-----------------------------------------------------------------------------
(* The websocket handlers and the set of connections *)

inputVars == <<filename, upload, pdf_content, chunked>>
extractVars == <<file_bytes, page_index, extracted_text, extractor_calls>>
analysisVars == <<content_chunks, chunk_index, all_analysis_results,
                  result_json, aggregated_results, model_calls>>
connVars == <<conn, active_connections>>

\* The upload handler is suspended at an await: other handlers run only then.
Suspended ==
    \/ pc \in {"idle", "reading", "http", "done", "failed"}
    \/ bc.status = "sending"

\* websocket_handler up to its receive loop: accept, then add to the set.
Connect(c) ==
    /\ Suspended
    /\ conn[c] = "new"
    /\ conn' = [conn EXCEPT ![c] = "open"]
    /\ active_connections' = active_connections \cup {c}
    /\ UNCHANGED <<pc, bc, pending_error, response, inputVars, extractVars,
                   analysisVars>>

\* The client goes away; its handler has not yet been resumed.
ClientDisconnect(c) ==
    /\ conn[c] = "open"
    /\ conn' = [conn EXCEPT ![c] = "gone"]
    /\ UNCHANGED <<pc, bc, pending_error, response, inputVars, extractVars,
                   analysisVars, active_connections>>

\* receive_text() raises in the handler; its finally block removes the socket.
HandlerExit(c) ==
    /\ Suspended
    /\ conn[c] = "gone"
    /\ conn' = [conn EXCEPT ![c] = "closed"]
    /\ active_connections' = active_connections \ {c}
    /\ UNCHANGED <<pc, bc, pending_error, response, inputVars, extractVars,
                   analysisVars>>

-----------------------------------------------------------------------------
(* broadcast_status_update: for connection in active_connections: await send *)

NoBroadcast ==
    [status |-> "none", snapshot |-> {}, visited |-> {}, cur |-> 0, err |-> "none"]

\* IterNext for an iterator that does not advance: it yields the socket it
\* yielded last for as long as that socket is in the set.
IterNextAgain(snapshot, visited, pos) ==
    IF Cardinality(active_connections) # Cardinality(snapshot)
    THEN [status |-> "raised", snapshot |-> snapshot, visited |-> visited,
          cur |-> 0, err |-> "SetChangedSize"]
    ELSE LET ahead == {c \in active_connections : c >= pos}
         IN  IF ahead = {}
             THEN [status |-> "returned", snapshot |-> snapshot,
                   visited |-> visited, cur |-> 0, err |-> "none"]
             ELSE [status |-> "sending", snapshot |-> snapshot,
                   visited |-> visited, err |-> "none",
                   cur |-> CHOOSE c \in ahead : \A d \in ahead : c <= d]

\* The set iterator's next().  The iterator walks the slots of the set's hash
\* table; the websockets are numbered in the order of their slots (they
\* connect in any order, so every order of arrival is covered), and `pos` is
\* the socket yielded last (0 before the first).  next() raises when the size
\* of the set is not the size it had when the loop began (`snapshot`);
\* otherwise it yields the first socket of the set after `pos`, if any: a
\* socket added since the loop began is yielded if its slot lies ahead.
IterNext(snapshot, visited, pos) ==
    IF Cardinality(active_connections) # Cardinality(snapshot)
    THEN [status |-> "raised", snapshot |-> snapshot, visited |-> visited,
          cur |-> 0, err |-> "SetChangedSize"]
    ELSE LET ahead == {c \in active_connections : c > pos}
         IN  IF ahead = {}
             THEN [status |-> "returned", snapshot |-> snapshot,
                   visited |-> visited, cur |-> 0, err |-> "none"]
             ELSE [status |-> "sending", snapshot |-> snapshot,
                   visited |-> visited, err |-> "none",
                   cur |-> CHOOSE c \in ahead : \A d \in ahead : c <= d]

\* The handler calls broadcast_status_update at the site named `site`: the
\* loop begins and runs to its first send.
Broadcast(site) ==
    /\ pc' = site
    /\ bc' = IterNext(active_connections, {}, 0)

\* A send_json returns and the loop goes on to the next socket, or it raises
\* (the peer is gone), which ends the loop and the broadcast.
SendDone ==
    /\ bc.status = "sending"
    /\ \/ bc' = IterNext(bc.snapshot, bc.visited \cup {bc.cur}, bc.cur)
       \/ /\ conn[bc.cur] \in {"gone", "closed"}
          /\ bc' = [bc EXCEPT !.status = "raised", !.err = "SendFailed"]
    /\ UNCHANGED <<pc, pending_error, response, inputVars, extractVars,
                   analysisVars, connVars>>

-----------------------------------------------------------------------------
(* handle_pdf_upload, extract_text_from_pdf and analyze_pdf_content.  The    *)
(* handler runs from one await to the next; every broadcast is such an await *)
(* and is named by its site: b_received (line 59), b_filesize (67), b_page   *)
(* (94), b_extracted (71), b_analyzing (106), b_chunk (114), b_sending (171),*)
(* b_response (175), b_parsed (180), b_chunk_error (184), b_finalizing (196),*)
(* b_completed (75), b_error (81).                                           *)

\* Returned for a caller that does not await the broadcast it started.
ReturnedOrSending == bc.status \in {"returned", "sending"}

Returned == bc.status = "returned"
Raised == bc.status = "raised"

\* The handler goes on to its next broadcast.
Continue(site) ==
    /\ Broadcast(site)
    /\ UNCHANGED <<pending_error, response>>

\* The handler suspends at an await that is no broadcast.
Await(p) ==
    /\ pc' = p
    /\ bc' = NoBroadcast
    /\ UNCHANGED <<pending_error, response>>

\* An exception reaches `except Exception` of handle_pdf_upload, which
\* broadcasts the error message (line 81).
Fail(kind, at) ==
    /\ pending_error' = [kind |-> kind, at |-> at]
    /\ Broadcast("b_error")
    /\ UNCHANGED response

\* The handler ends: the caller gets its response.
Respond(status, body) ==
    /\ pc' = IF status = 200 THEN "done" ELSE "failed"
    /\ bc' = NoBroadcast
    /\ response' = [status |-> status, body |-> body]

\* POST /upload arrives: line 59.
Upload(fn, u) ==
    /\ pc = "idle"
    /\ filename' = fn
    /\ upload' = u
    /\ Continue("b_received")
    /\ UNCHANGED <<pdf_content, chunked, extractVars, analysisVars, connVars>>

\* AfterReceived without the file type check of lines 63-64.
AfterReceivedNoCheck ==
    /\ pc = "b_received"
    /\ \/ /\ Raised
          /\ pending_error' = [kind |-> bc.err, at |-> "b_received"]
          /\ Respond(500, << >>)
       \/ /\ Returned
          /\ Await("reading")
    /\ UNCHANGED <<inputVars, extractVars, analysisVars, connVars>>

\* Lines 60-66: the broadcast of line 59 is outside the try block, so what it
\* raises leaves the handler; then the file type check; then the read.
AfterReceived ==
    /\ pc = "b_received"
    /\ \/ /\ Raised
          /\ pending_error' = [kind |-> bc.err, at |-> "b_received"]
          /\ Respond(500, << >>)
       \/ /\ Returned
          /\ IF ~EndsWith(filename, PdfSuffix)
             THEN Fail("HTTPException400", "validation")
             ELSE Await("reading")
    /\ UNCHANGED <<inputVars, extractVars, analysisVars, connVars>>

\* Lines 66-67: uploaded_file.read() returns.
ReadDone ==
    /\ pc = "reading"
    /\ file_bytes' = TRUE
    /\ Continue("b_filesize")
    /\ UNCHANGED <<inputVars, page_index, extracted_text, extractor_calls,
                   analysisVars, connVars>>

\* extracted_text after the first n pages: each page's text and a newline.
RECURSIVE PagesText(_, _)
PagesText(pages, n) ==
    IF n = 0 THEN << >>
    ELSE PagesText(pages, n - 1) \o TextOfLen(pages[n]) \o <<NewLine>>

\* ExtractFrom without the `raise` of line 101: the failure of a page is
\* logged and the text extracted so far is returned.
ExtractFromSwallow(k) ==
    IF k > Len(upload.pages)
    THEN /\ extracted_text' = Len(PagesText(upload.pages, k - 1))
         /\ page_index' = page_index
         /\ Continue("b_extracted")
    ELSE IF upload.fails_at = k
    THEN /\ UNCHANGED <<extracted_text, page_index, response>>
         /\ pending_error' = [kind |-> "ExtractTextError", at |-> "extract"]
         /\ Broadcast("b_extracted")
    ELSE /\ extracted_text' = Len(PagesText(upload.pages, k))
         /\ page_index' = k
         /\ Continue("b_page")

\* Lines 91-96: the page loop of extract_text_from_pdf from page k on (k is
\* 1-based); then line 71.
ExtractFrom(k) ==
    IF k > Len(upload.pages)
    THEN /\ extracted_text' = Len(PagesText(upload.pages, k - 1))
         /\ page_index' = page_index
         /\ Continue("b_extracted")
    ELSE IF upload.fails_at = k
    THEN /\ UNCHANGED <<extracted_text, page_index>>
         /\ Fail("ExtractTextError", "extract")
    ELSE /\ extracted_text' = Len(PagesText(upload.pages, k))
         /\ page_index' = k
         /\ Continue("b_page")

\* Lines 68-70 and 89-94: extract_text_from_pdf is called.
AfterFileSize ==
    /\ pc = "b_filesize"
    /\ \/ /\ Raised
          /\ Fail(bc.err, "b_filesize")
          /\ UNCHANGED <<extracted_text, page_index, extractor_calls>>
       \/ /\ Returned
          /\ extractor_calls' = extractor_calls + 1
          /\ IF upload.fails_at = 0
             THEN /\ Fail("PdfReadError", "extract")
                  /\ UNCHANGED <<extracted_text, page_index>>
             ELSE ExtractFrom(1)
    /\ UNCHANGED <<inputVars, file_bytes, analysisVars, connVars>>

\* Lines 91-101: after a page's broadcast, the next page or the return; what
\* the broadcast raises is logged and raised again.
AfterPage ==
    /\ pc = "b_page"
    /\ \/ /\ Raised
          /\ Fail(bc.err, "b_page")
          /\ UNCHANGED <<extracted_text, page_index>>
       \/ /\ Returned
          /\ ExtractFrom(page_index + 1)
    /\ UNCHANGED <<inputVars, file_bytes, extractor_calls, analysisVars, connVars>>

\* Lines 72-74 and 105-106: analyze_pdf_content is called.
AfterExtracted ==
    /\ pc = "b_extracted"
    /\ \/ Raised /\ Fail(bc.err, "b_extracted")
       \/ Returned /\ Continue("b_analyzing")
    /\ UNCHANGED <<inputVars, extractVars, analysisVars, connVars>>

\* Lines 189-196: the aggregation of `results` and the broadcast after it.
AggregateStep(results) ==
    IF AggregateRaises(results)
    THEN /\ Fail("KeyError", "aggregate")
         /\ UNCHANGED aggregated_results
    ELSE /\ aggregated_results' = <<Aggregate(results)>>
         /\ Continue("b_finalizing")

\* Lines 109-114: chunking, then the first chunk, or no chunk at all.
AfterAnalyzing ==
    /\ pc = "b_analyzing"
    /\ \/ /\ Raised
          /\ Fail(bc.err, "b_analyzing")
          /\ UNCHANGED analysisVars
       \/ /\ Returned
          /\ LET chunks == ChunkText(PagesText(upload.pages, page_index))
             IN  content_chunks' = [k \in DOMAIN chunks |-> Len(chunks[k])]
          /\ all_analysis_results' = << >>
          /\ model_calls' = [i \in 1..Len(content_chunks') |-> 0]
          /\ chunk_index' = 0
          /\ UNCHANGED result_json
          /\ IF content_chunks' = << >>
             THEN AggregateStep(<< >>)
             ELSE Continue("b_chunk") /\ UNCHANGED aggregated_results
    /\ UNCHANGED <<inputVars, extractVars, connVars>>

\* Lines 115-171: the prompt and the request are built; "Sending request".
AfterChunk ==
    /\ pc = "b_chunk"
    /\ \/ Raised /\ Fail(bc.err, "b_chunk")
       \/ Returned /\ Continue("b_sending")
    /\ UNCHANGED <<inputVars, extractVars, analysisVars, connVars>>

\* AfterSending issuing the POST of the next chunk along with this one's.
AfterSendingAhead ==
    /\ pc = "b_sending"
    /\ \/ /\ Raised
          /\ Continue("b_chunk_error")
          /\ UNCHANGED model_calls
       \/ /\ Returned
          /\ model_calls' = [i \in DOMAIN model_calls |->
                                IF i \in {chunk_index + 1, chunk_index + 2}
                                THEN model_calls[i] + 1 ELSE model_calls[i]]
          /\ Await("http")
    /\ UNCHANGED <<inputVars, extractVars, content_chunks, chunk_index,
                   all_analysis_results, result_json, aggregated_results,
                   connVars>>

\* Line 172: the POST is issued; lines 181-184 when the broadcast raised.
AfterSending ==
    /\ pc = "b_sending"
    /\ \/ /\ Raised
          /\ Continue("b_chunk_error")
          /\ UNCHANGED model_calls
       \/ /\ Returned
          /\ model_calls' = [model_calls EXCEPT ![chunk_index + 1] = @ + 1]
          /\ Await("http")
    /\ UNCHANGED <<inputVars, extractVars, content_chunks, chunk_index,
                   all_analysis_results, result_json, aggregated_results,
                   connVars>>

\* NextChunk leaving the loop after the chunk at hand, whatever chunks remain.
NextChunkStopsEarly ==
    /\ UNCHANGED chunk_index
    /\ AggregateStep(all_analysis_results)

\* Line 113: the loop goes to the next chunk, or ends (lines 189-196).
NextChunk ==
    IF chunk_index + 1 < Len(content_chunks)
    THEN /\ chunk_index' = chunk_index + 1
         /\ Continue("b_chunk")
         /\ UNCHANGED aggregated_results
    ELSE /\ UNCHANGED chunk_index
         /\ AggregateStep(all_analysis_results)

\* ModelAnswers going on to the next chunk when the request fails, with no
\* "Error processing chunk" event.
ModelAnswersSilentError(a) ==
    /\ pc = "http"
    /\ IF a.kind = "http_error"
       THEN NextChunk /\ UNCHANGED result_json
       ELSE /\ Continue("b_response")
            /\ result_json' = a
            /\ UNCHANGED <<chunk_index, aggregated_results>>
    /\ UNCHANGED <<inputVars, extractVars, content_chunks,
                   all_analysis_results, model_calls, connVars>>

\* Lines 172-175: the endpoint answers; raise_for_status() and json().
ModelAnswers(a) ==
    /\ pc = "http"
    /\ IF a.kind = "http_error"
       THEN Continue("b_chunk_error") /\ UNCHANGED result_json
       ELSE Continue("b_response") /\ result_json' = a
    /\ UNCHANGED <<inputVars, extractVars, content_chunks, chunk_index,
                   all_analysis_results, aggregated_results, model_calls, connVars>>

\* Lines 178-180: the content is parsed and appended; nothing reads
\* result_json after line 178.
AfterResponse ==
    /\ pc = "b_response"
    /\ \/ /\ Raised \/ (Returned /\ result_json.kind = "bad_body")
          /\ Continue("b_chunk_error")
          /\ UNCHANGED all_analysis_results
       \/ /\ Returned
          /\ result_json.kind = "json"
          /\ all_analysis_results' = Append(all_analysis_results, result_json.doc[1])
          /\ Continue("b_parsed")
    /\ result_json' = NoAnswer
    /\ UNCHANGED <<inputVars, extractVars, content_chunks, chunk_index,
                   aggregated_results, model_calls, connVars>>

\* Line 180 done: its exception goes to the chunk's except block.
AfterParsed ==
    /\ pc = "b_parsed"
    /\ \/ /\ Raised
          /\ Continue("b_chunk_error")
          /\ UNCHANGED <<chunk_index, aggregated_results>>
       \/ /\ Returned
          /\ NextChunk
    /\ UNCHANGED <<inputVars, extractVars, content_chunks, all_analysis_results,
                   result_json, model_calls, connVars>>

\* Lines 184-186: what the broadcast inside the except block raises leaves
\* analyze_pdf_content.
AfterChunkError ==
    /\ pc = "b_chunk_error"
    /\ \/ /\ Raised
          /\ Fail(bc.err, "b_chunk_error")
          /\ UNCHANGED <<chunk_index, aggregated_results>>
       \/ /\ Returned
          /\ NextChunk
    /\ UNCHANGED <<inputVars, extractVars, content_chunks, all_analysis_results,
                   result_json, model_calls, connVars>>

\* Lines 196-197 and 75.
AfterFinalizing ==
    /\ pc = "b_finalizing"
    /\ \/ Raised /\ Fail(bc.err, "b_finalizing")
       \/ Returned /\ Continue("b_completed")
    /\ UNCHANGED <<inputVars, extractVars, analysisVars, connVars>>

\* Lines 75-77: the result is returned to the caller.
AfterCompleted ==
    /\ pc = "b_completed"
    /\ \/ Raised /\ Fail(bc.err, "b_completed")
       \/ /\ Returned
          /\ Respond(200, aggregated_results)
          /\ UNCHANGED pending_error
    /\ UNCHANGED <<inputVars, extractVars, analysisVars, connVars>>

\* Lines 82-84: HTTPException(500); an exception of the broadcast of line 81
\* leaves the handler, which the server answers with status 500 as well.
AfterError ==
    /\ pc = "b_error"
    /\ Raised \/ Returned
    /\ Respond(500, << >>)
    /\ UNCHANGED <<pending_error, inputVars, extractVars, analysisVars, connVars>>

-----------------------------------------------------------------------------
(* The server *)

\* Everything but pc, the text given to the chunker and the result list.
Blank ==
    /\ filename = << >>
    /\ upload = [pages |-> << >>, fails_at |-> -1]
    /\ file_bytes = FALSE
    /\ page_index = 0
    /\ extracted_text = 0
    /\ content_chunks = << >>
    /\ chunk_index = 0
    /\ result_json = NoAnswer
    /\ aggregated_results = << >>
    /\ pending_error = NoError
    /\ response = NoResponse
    /\ conn = [c \in Conns |-> "new"]
    /\ active_connections = {}
    /\ bc = NoBroadcast
    /\ extractor_calls = 0
    /\ model_calls = << >>
    /\ chunked = << >>

Init ==
    /\ pc = "idle"
    /\ all_analysis_results = << >>
    /\ pdf_content = << >>
    /\ Blank

Next ==
    \/ \E c \in Conns : Connect(c)
    \/ \E c \in Conns : ClientDisconnect(c)
    \/ \E c \in Conns : HandlerExit(c)
    \/ SendDone
    \/ \E fn \in Filenames, u \in Uploads : Upload(fn, u)
    \/ AfterReceived
    \/ ReadDone
    \/ AfterFileSize
    \/ AfterPage
    \/ AfterExtracted
    \/ AfterAnalyzing
    \/ AfterChunk
    \/ AfterSending
    \/ \E a \in Answers(chunk_index + 1) : ModelAnswers(a)
    \/ AfterResponse
    \/ AfterParsed
    \/ AfterChunkError
    \/ AfterFinalizing
    \/ AfterCompleted
    \/ AfterError

Spec == Init /\ [][Next]_vars

\* A step of the upload handler or of the broadcast it awaits: what the
\* event loop runs once the awaited read, send or POST has returned or failed.
HandlerStep ==
    \/ SendDone
    \/ AfterReceived
    \/ ReadDone
    \/ AfterFileSize
    \/ AfterPage
    \/ AfterExtracted
    \/ AfterAnalyzing
    \/ AfterChunk
    \/ AfterSending
    \/ \E a \in Answers(chunk_index + 1) : ModelAnswers(a)
    \/ AfterResponse
    \/ AfterParsed
    \/ AfterChunkError
    \/ AfterFinalizing
    \/ AfterCompleted
    \/ AfterError

\* The server when every read, send and POST eventually returns or fails and
\* the event loop resumes the handler that awaits it.
SpecLive == Init /\ [][Next]_vars /\ WF_vars(HandlerStep)

-----------------------------------------------------------------------------
(* The chunker on its own: line 109 applied to every text up to MaxTextLen *)

InitChunk ==
    /\ pc = "chunk_in"
    /\ pdf_content \in { TextOfLen(n) : n \in 0..MaxTextLen }
    /\ all_analysis_results = << >>
    /\ Blank

ApplyChunk ==
    /\ pc = "chunk_in"
    /\ pc' = "chunk_out"
    /\ chunked' = <<ChunkText(pdf_content)>>
    /\ UNCHANGED <<filename, upload, pdf_content, bc, pending_error, response,
                   extractVars, analysisVars, connVars>>

SpecChunk == InitChunk /\ [][ApplyChunk]_vars

-----------------------------------------------------------------------------
(* The aggregation on its own: lines 189-194 applied to every list of up to *)
(* MaxResults results drawn from ChunkResults.                              *)

ChunkResults ==
    { [summary |-> <<"A">>, abnormal_results |-> <<1>>, charts |-> << >>,
       recommendations |-> <<2, 3>>],
      [summary |-> <<"B", "C">>],
      [summary |-> << >>, charts |-> <<4>>, recommendations |-> <<5>>],
      [summary |-> <<" ">>, abnormal_results |-> <<6, 7>>, charts |-> <<8>>],
      [abnormal_results |-> <<9>>] }

ResultLists == UNION { [1..n -> ChunkResults] : n \in 0..MaxResults }

InitAggregate ==
    /\ pc = "aggregate_in"
    /\ all_analysis_results \in ResultLists
    /\ pdf_content = << >>
    /\ Blank

ApplyAggregate ==
    /\ pc = "aggregate_in"
    /\ pc' = "aggregate_out"
    /\ IF AggregateRaises(all_analysis_results)
       THEN /\ pending_error' = [kind |-> "KeyError", at |-> "aggregate"]
            /\ UNCHANGED aggregated_results
       ELSE /\ aggregated_results' = <<Aggregate(all_analysis_results)>>
            /\ UNCHANGED pending_error
    /\ UNCHANGED <<bc, response, inputVars, extractVars, connVars,
                   content_chunks, chunk_index, all_analysis_results,
                   result_json, model_calls>>

SpecAggregate == InitAggregate /\ [][ApplyAggregate]_vars

-----------------------------------------------------------------------------
(* Properties of the chunker, checked under SpecChunk *)

RECURSIVE ConcatAll(_)
ConcatAll(seqs) ==
    IF seqs = << >> THEN << >> ELSE Head(seqs) \o ConcatAll(Tail(seqs))

\* C9: for a text of length L the chunker gives ceil(L / 1500) chunks (none
\* for the empty text) whose concatenation in order is the text; no chunk is
\* empty and every chunk but the last has exactly 1500 characters.
C9_ChunkingPartitionsText ==
    chunked # << >> =>
        LET cs == chunked[1]
            L == Len(pdf_content)
        IN  /\ Len(cs) = (L + 1499) \div 1500
            /\ L = 0 => cs = << >>
            /\ ConcatAll(cs) = pdf_content
            /\ \A k \in DOMAIN cs : Len(cs[k]) > 0
            /\ \A k \in 1..(Len(cs) - 1) : Len(cs[k]) = 1500

\* A text of three chunks whose last chunk is a short one has been chunked.
C9_Witness ==
    /\ chunked # << >>
    /\ Len(chunked[1]) = 3
    /\ Len(chunked[1][3]) = 200

-----------------------------------------------------------------------------
(* Properties of the aggregation, checked under SpecAggregate *)

FieldOrEmpty(r, key) == IF key \in DOMAIN r THEN r[key] ELSE << >>

\* Total length of the field `key` over the first n results.
RECURSIVE LenBefore(_, _, _)
LenBefore(results, key, n) ==
    IF n = 0 THEN 0
    ELSE LenBefore(results, key, n - 1) + Len(FieldOrEmpty(results[n], key))

\* `out` holds the items of the field of each result, result after result.
IsFlattened(out, results, key) ==
    /\ Len(out) = LenBefore(results, key, Len(results))
    /\ \A k \in DOMAIN results :
         \A j \in 1..Len(FieldOrEmpty(results[k], key)) :
            out[LenBefore(results, key, k - 1) + j] = FieldOrEmpty(results[k], key)[j]

\* `out` holds the summaries in order with one space between neighbours.
IsSpaceJoined(out, results) ==
    LET n == Len(results)
        start(k) == LenBefore(results, "summary", k - 1) + (k - 1)
    IN  /\ Len(out) = LenBefore(results, "summary", n) + (IF n = 0 THEN 0 ELSE n - 1)
        /\ \A k \in 1..n :
             /\ \A j \in 1..Len(results[k]["summary"]) :
                    out[start(k) + j] = results[k]["summary"][j]
             /\ k > 1 => out[start(k)] = " "

AllHaveSummary(results) == \A k \in DOMAIN results : "summary" \in DOMAIN results[k]

\* C10: for a list R of results that each have a summary, the aggregate's
\* summary is R's summaries joined by single spaces in order, and each of
\* abnormal_results, charts and recommendations is that field of the results
\* concatenated in order, a result without the field adding nothing and
\* raising nothing; for the empty list the summary is empty and so are the
\* three lists.
C10_AggregateJoinsAndFlattens ==
    (pc = "aggregate_out" /\ AllHaveSummary(all_analysis_results)) =>
        /\ aggregated_results # << >>
        /\ pending_error = NoError
        /\ LET a == aggregated_results[1]
               R == all_analysis_results
           IN  /\ IsSpaceJoined(a.summary, R)
               /\ \A key \in ListFields : IsFlattened(a[key], R, key)
               /\ R = << >> =>
                    /\ a.summary = << >>
                    /\ \A key \in ListFields : a[key] = << >>

\* Three results were aggregated, one of them without a list field and one
\* with items in the same field.
C10_Witness ==
    /\ pc = "aggregate_out"
    /\ aggregated_results # << >>
    /\ Len(all_analysis_results) = 3
    /\ "charts" \notin DOMAIN all_analysis_results[1]
    /\ "charts" \in DOMAIN all_analysis_results[2]
    /\ all_analysis_results[2]["charts"] # << >>
    /\ all_analysis_results[3]["summary"] # << >>

-----------------------------------------------------------------------------
(* Properties of the server, checked under Spec *)

\* Where an exception that ends the request was raised, by stage of the
\* pipeline: Received (up to the end of the extraction), Extracted (up to the
\* chunking), Analyzing (the chunk loop), Aggregated (from the aggregation on).
ReceivedSites == {"b_received", "validation", "b_filesize", "extract", "b_page"}
ExtractedSites == {"b_extracted", "b_analyzing"}
AnalyzingSites == {"b_chunk", "b_chunk_error"}
AggregatedSites == {"aggregate", "b_finalizing", "b_completed"}

NoModelCall == \A i \in DOMAIN model_calls : model_calls[i] = 0

\* C1: a send that fails for one subscriber does not make the broadcast
\* raise, and the event still reaches every other registered subscriber.
C1_BroadcastIsolatesFailures ==
    \A s \in Conns :
        (bc.err = "SendFailed" /\ bc.cur = s) =>
            /\ bc.status # "raised"
            /\ bc.status = "returned" =>
                 (bc.snapshot \cap active_connections) \ {s} \subseteq bc.visited

\* The results of the chunks whose model call succeeded: those the handler
\* has appended that have the shape of a chunk result, in chunk order.
SucceededResults ==
    SelectSeq(all_analysis_results, LAMBDA r : "summary" \in DOMAIN r)

\* C2: whatever chunks fail at the model call, a request that has come to its
\* chunk loop is answered with success, and its result is the aggregate of
\* the chunks whose call succeeded, in chunk order.
C2_ChunkFailuresAreAbsorbed ==
    (pc \in {"done", "failed"} /\ pending_error.at \notin ReceivedSites \cup ExtractedSites) =>
        /\ response.status = 200
        /\ response.body = <<Aggregate(SucceededResults)>>

\* C3: an upload whose file name does not end in ".pdf" is answered with
\* status 400.
C3_WrongFileTypeIsClientError ==
    (pc = "failed" /\ pending_error.kind = "HTTPException400") => response.status = 400

\* C4: for an upload whose file name does not end in ".pdf" the file is never
\* read, the extractor is never called and no model call is issued.
C4_NonPdfRejectedBeforeAnyWork ==
    (pc # "idle" /\ ~EndsWith(filename, PdfSuffix)) =>
        /\ file_bytes = FALSE
        /\ extractor_calls = 0
        /\ NoModelCall
        /\ pc \notin {"reading", "http"}

\* The file type check has rejected an upload, which has been answered.
C4_Witness ==
    /\ pc = "failed"
    /\ ~EndsWith(filename, PdfSuffix)
    /\ pending_error = [kind |-> "HTTPException400", at |-> "validation"]

\* The extraction has failed: PdfReader or a page's extract_text raised, or
\* the broadcast of a page did.
ExtractionFailed == pending_error.at \in {"extract", "b_page"}

\* C5: once the extraction has failed no model call is issued for the request
\* and the answer to the caller, when given, is a failure without a result.
C5_ExtractionFailureIsFatal ==
    ExtractionFailed =>
        /\ NoModelCall
        /\ pc \in {"b_error", "failed"}
        /\ aggregated_results = << >>
        /\ pc = "failed" => (response.status = 500 /\ response.body = << >>)

\* The second page of an upload could not be extracted and the caller has its
\* failure.
C5_Witness ==
    /\ pc = "failed"
    /\ upload.fails_at = 2
    /\ pending_error = [kind |-> "ExtractTextError", at |-> "extract"]
    /\ response.status = 500

\* C6: no broadcast fails because a connect or a disconnect changed the set
\* while the broadcast was suspended at a send.
C6_SetSafeUnderInterleaving ==
    ~(bc.status = "raised" /\ bc.err = "SetChangedSize")

\* C7: a request that has reached its analysis is not failed by a subscriber
\* that went away.
C7_DisconnectDoesNotStopPipeline ==
    (pc = "failed" /\ pending_error.at \in AnalyzingSites \cup AggregatedSites) =>
        pending_error.kind # "SendFailed"

\* C8: a request fails only in Received or Extracted.
C8_FailedOnlyFromReceivedOrExtracted ==
    pc = "failed" => pending_error.at \in ReceivedSites \cup ExtractedSites

-----------------------------------------------------------------------------
(* Order of the stages of one request, checked under Spec *)

\* The number of characters of the first n pages, each with its newline.
RECURSIVE CharsOfPages(_, _)
CharsOfPages(pages, n) ==
    IF n = 0 THEN 0 ELSE CharsOfPages(pages, n - 1) + pages[n] + 1

\* The extraction has run to its end: every page was read, nothing failed.
ExtractionComplete ==
    /\ extractor_calls = 1
    /\ upload.fails_at = -1
    /\ page_index = Len(upload.pages)
    /\ extracted_text = CharsOfPages(upload.pages, Len(upload.pages))

\* The lengths of the chunks of a text of L characters: full chunks, then
\* what is left.
ChunkLengths(L) ==
    [k \in 1..((L + ChunkSize - 1) \div ChunkSize) |->
        Min(ChunkSize, L - (k - 1) * ChunkSize)]

\* content_chunks holds the chunks of the whole extracted text.
ChunkingComplete ==
    content_chunks = ChunkLengths(CharsOfPages(upload.pages, Len(upload.pages)))

\* The result list holds a document the endpoint gave for chunk i (1-based).
HasResultOf(i) ==
    \E k \in DOMAIN all_analysis_results : all_analysis_results[k] \in Documents(i)

\* What the loop has settled for chunk i: "result" once its document is in the
\* list, "absent" once the loop has reported its failure and no document of it
\* is in the list, "pending" before.
ChunkOutcome(i) ==
    IF HasResultOf(i) THEN "result"
    ELSE IF i < chunk_index + 1 \/ (i = chunk_index + 1 /\ pc = "b_chunk_error" /\ Returned)
    THEN "absent"
    ELSE "pending"

\* The steps at which a stage begins.
ChunkingBegins == pc = "b_analyzing" /\ Returned /\ pc' # pc
ModelCallIssued == pc # "http" /\ pc' = "http"
AggregationBegins ==
    \/ aggregated_results = << >> /\ aggregated_results' # << >>
    \/ pending_error.at # "aggregate" /\ pending_error'.at = "aggregate"

\* C11: within a request the chunking begins only when the extraction has
\* run to its end, a model call is issued only when the chunking is done, and
\* the aggregation begins only when every chunk has a result or a recorded
\* absence.
C11_StagesInOrder ==
    [][ /\ ChunkingBegins => ExtractionComplete
        /\ ModelCallIssued => (ExtractionComplete /\ ChunkingComplete)
        /\ AggregationBegins =>
              /\ ExtractionComplete
              /\ ChunkingComplete'
              /\ \A i \in 1..Len(content_chunks') : ChunkOutcome(i) # "pending"
              /\ content_chunks' # << >> =>
                    /\ chunk_index + 1 = Len(content_chunks)
                    /\ pc \in {"b_parsed", "b_chunk_error"} /\ Returned
      ]_vars

\* A request of two chunks has been answered with the aggregate of one
\* result, the other chunk having failed.
C11_Witness ==
    /\ pc = "done"
    /\ Len(content_chunks) = 2
    /\ model_calls = <<1, 1>>
    /\ Len(all_analysis_results) = 1
    /\ response.body = aggregated_results

-----------------------------------------------------------------------------
(* The chunk loop, checked under Spec *)

\* The broadcast sites whose message names the chunk at hand.
ChunkSites == {"b_chunk", "b_sending", "b_response", "b_parsed", "b_chunk_error"}

\* C12: the chunks of a request are processed one after the other: the POST
\* for a chunk is issued only when no POST is in flight and none was issued
\* for a later chunk, the loop leaves a chunk only when its call is over
\* (its result parsed or its failure reported), and the chunk number named in
\* the progress events never decreases.
C12_ChunksSequential ==
    [][ /\ chunk_index' >= chunk_index
        /\ chunk_index' # chunk_index =>
              /\ chunk_index' = chunk_index + 1
              /\ pc \in {"b_parsed", "b_chunk_error"}
              /\ pc' = "b_chunk"
        /\ ModelCallIssued =>
              /\ pc = "b_sending"
              /\ model_calls' = [model_calls EXCEPT ![chunk_index + 1] = @ + 1]
              /\ \A j \in DOMAIN model_calls : j > chunk_index + 1 => model_calls[j] = 0
        /\ (pc \in ChunkSites /\ pc' \in ChunkSites /\ pc' # pc) =>
              \/ chunk_index' = chunk_index
              \/ chunk_index' = chunk_index + 1 /\ pc' = "b_chunk"
      ]_vars

\* The POST for the second chunk is in flight, the call for the first being
\* over.
C12_Witness ==
    /\ pc = "http"
    /\ chunk_index = 1
    /\ model_calls = <<1, 1>>

\* C13: no chunk is ever sent to the endpoint twice, and a request that has
\* gone through its analysis has sent every chunk exactly once.
C13_OneCallPerChunk ==
    /\ \A i \in DOMAIN model_calls : model_calls[i] <= 1
    /\ pc \in {"b_finalizing", "b_completed", "done"} =>
          /\ DOMAIN model_calls = DOMAIN content_chunks
          /\ \A i \in DOMAIN content_chunks : model_calls[i] = 1

-----------------------------------------------------------------------------
(* The subscribers, checked under Spec *)

\* C14: a broadcast that has ended has delivered its event to every
\* subscriber that was registered when it was called and is still connected,
\* and to no subscriber that was not registered then.
C14_DeliversToRegisteredAtCall ==
    bc.status \in {"returned", "raised"} =>
        /\ bc.visited \subseteq bc.snapshot
        /\ \A c \in bc.snapshot : conn[c] = "open" => c \in bc.visited

\* C15: a subscriber whose handler has ended is not in the set, and a
\* subscriber to which a send has failed is not in the set any more.
C15_SubscriberLeavesSet ==
    /\ \A c \in Conns : conn[c] = "closed" => c \notin active_connections
    /\ bc.err = "SendFailed" => bc.cur \notin active_connections

\* C16: for an upload rejected for its file type nothing is broadcast after
\* the "File received" event.
C16_RejectedUploadBroadcastsOnlyReceived ==
    (pc # "idle" /\ ~EndsWith(filename, PdfSuffix)) => pc \in {"b_received", "failed"}

\* C18: when "Error processing chunk i" is broadcast no result of chunk i is
\* in the result list.
C18_ErrorEventMeansNoResult ==
    pc = "b_chunk_error" => ~HasResultOf(chunk_index + 1)

-----------------------------------------------------------------------------
(* Order of the events, checked under Spec *)

Sites ==
    {"b_received", "b_filesize", "b_page", "b_extracted", "b_analyzing",
     "b_finalizing", "b_completed", "b_error"} \cup ChunkSites

\* The number, in the order of the calls, of the broadcast the handler has
\* called last: a request with P pages and N chunks calls "File received"
\* (1), "File size" (2), a broadcast per page, "Extracted" and "Analyzing",
\* up to five broadcasts per chunk, "Finalizing", "Analysis successfully
\* completed" and, when it fails, "Error processing file" last of all.
EventNo ==
    LET P == Len(upload.pages)
        N == Len(content_chunks)
        chunk0 == 5 + P + 5 * chunk_index
    IN  CASE pc = "idle" -> 0
          [] pc \in {"b_received", "reading"} -> 1
          [] pc = "b_filesize" -> 2
          [] pc = "b_page" -> 2 + page_index
          [] pc = "b_extracted" -> 3 + P
          [] pc = "b_analyzing" -> 4 + P
          [] pc = "b_chunk" -> chunk0
          [] pc \in {"b_sending", "http"} -> chunk0 + 1
          [] pc = "b_response" -> chunk0 + 2
          [] pc = "b_parsed" -> chunk0 + 3
          [] pc = "b_chunk_error" -> chunk0 + 4
          [] pc = "b_finalizing" -> 5 + P + 5 * N
          [] pc = "b_completed" -> 6 + P + 5 * N
          [] pc = "b_error" -> 7 + P + 5 * N
          [] pc \in {"done", "failed"} -> 8 + P + 5 * N

\* The handler calls broadcast_status_update.
BroadcastCalled ==
    /\ pc' \in Sites
    /\ <<pc, page_index, chunk_index>>' # <<pc, page_index, chunk_index>>

\* A send_json has returned: its subscriber has the event.
Delivered == bc.status = "sending" /\ bc'.visited # bc.visited

\* C17: every subscriber receives the events of the handler in the order of
\* its calls of broadcast: the calls are numbered in increasing order, a call
\* is made only when no send of an earlier call is still under way, and
\* within a call a subscriber is sent the event once.
C17_EventsInCallOrder ==
    [][ /\ EventNo' >= EventNo
        /\ BroadcastCalled =>
              /\ EventNo' > EventNo
              /\ bc.status # "sending"
              /\ bc'.visited = {}
        /\ Delivered =>
              /\ EventNo' = EventNo
              /\ bc.cur \notin bc.visited
              /\ bc'.visited = bc.visited \cup {bc.cur}
      ]_vars

\* Two subscribers have each received the broadcast of the second page, the
\* fourth of the request.
C17_Witness ==
    /\ pc = "b_page"
    /\ page_index = 2
    /\ bc.status = "returned"
    /\ bc.visited = {1, 2}

\* C19: a POST is issued only when the "Sending request" event of its chunk
\* has been broadcast; when the call is over the handler broadcasts "Received
\* response" or "Error processing chunk" for that chunk; and the loop goes to
\* the next chunk's "Processing chunk" event only from the "Successfully
\* parsed" event, which follows "Received response", or from the error event.
C19_EventsBracketModelCall ==
    [][ /\ ModelCallIssued =>
              /\ pc = "b_sending" /\ Returned
              /\ chunk_index' = chunk_index
        /\ (pc = "http" /\ pc' # "http") =>
              /\ pc' \in {"b_response", "b_chunk_error"}
              /\ chunk_index' = chunk_index
        /\ (pc # "b_parsed" /\ pc' = "b_parsed") =>
              /\ pc = "b_response"
              /\ chunk_index' = chunk_index
        /\ (pc' = "b_chunk" /\ chunk_index' = chunk_index + 1) =>
              pc \in {"b_parsed", "b_chunk_error"}
      ]_vars

\* The call for the first chunk was issued and gave no result, its error
\* event has been broadcast, and the second chunk's "Processing chunk" event
\* is under way.
C19_Witness ==
    /\ pc = "b_chunk"
    /\ chunk_index = 1
    /\ model_calls[1] = 1
    /\ all_analysis_results = << >>

-----------------------------------------------------------------------------
(* The outcome of a request, checked under SpecLive *)

AggregateKeys == {"summary", "abnormal_results", "charts", "recommendations"}

\* C20: every upload comes to an end, which is either Done, the caller having
\* the whole aggregate after the "Analysis successfully completed." event
\* returned, or Failed, the caller having a failure and no result; the end
\* is final, so a request never has both.
C20_EveryUploadEndsOnce ==
    /\ (pc # "idle") ~> (pc \in {"done", "failed"})
    /\ [](pc = "done" =>
            /\ response.status = 200
            /\ pending_error = NoError
            /\ aggregated_results # << >>
            /\ response.body = aggregated_results
            /\ DOMAIN response.body[1] = AggregateKeys)
    /\ [](pc = "failed" =>
            /\ response.status = 500
            /\ response.body = << >>
            /\ pending_error # NoError)
    /\ [](pc \notin {"done", "failed"} => response = NoResponse)
    /\ [][ /\ pc \in {"done", "failed"} => (pc' = pc /\ response' = response)
           /\ (pc # "done" /\ pc' = "done") => (pc = "b_completed" /\ Returned)
         ]_vars

\* A request has ended Done with the aggregate of two chunks.
C20_WitnessDone ==
    /\ pc = "done"
    /\ Len(all_analysis_results) = 2
    /\ response.body = <<Aggregate(all_analysis_results)>>

=============================================================================
